---- MODULE Spec2Model ----
(***************************************************************************)
(* The coffee-shop backend: the /products router with its middleware chain *)
(* (auth, role, upload, validateProduct) in front of the CRUD handlers,    *)
(* over a Product collection.                                              *)
(*                                                                         *)
(* A request is received (method, id, Authorization header), then walks    *)
(* the middleware list of its route one middleware at a time, exactly as   *)
(* Express dispatches it: a middleware either answers (the request is      *)
(* done) or calls next() (the following middleware runs).  The multipart   *)
(* body and the file are read from the request by the upload middleware.   *)
(***************************************************************************)
EXTENDS Integers, Sequences, FiniteSets, TLC

VARIABLES
    store,      \* the Product collection: id -> document, or NoDoc
    nextId,     \* the next identifier the persistence layer hands out
    conn,       \* per client: the request in flight and its response
    deleted,    \* history: ids whose DELETE was answered 200
    users,      \* the User collection, in insertion order
    sess,       \* per client: the /auth request in flight and its response
    clock,      \* the server's time, in seconds
    disk        \* the upload directory, where the specification observes it

vars == <<store, nextId, conn, deleted, users, sess, clock, disk>>

\* ---------------------------------------------------------------- bounds
MaxId == 2          \* products ever created in a run
MaxList == 3        \* products ever created before the listing requests
MaxUsers == 2       \* users stored or being registered at a time
MaxTime == 7200     \* the last second the clock reaches
ExpiresIn == 3600   \* expiresIn: "1h", in seconds

\* seconds between two observations of the clock
TickStep == ExpiresIn \div 2

Ids == 1..MaxId
BadId == 0          \* an id that is no well-formed ObjectId (CastError)
Clients == {"c1"}

\* ---------------------------------------------------------------- values
\* A form/JSON value: absent (undefined), a string, or a number.
Absent == [k |-> "absent", s |-> "", n |-> 0]
S(x) == [k |-> "str", s |-> x, n |-> 0]
N(x) == [k |-> "num", s |-> "", n |-> x]

NaN == -1
\* the decimal strings of the model and the number each one denotes
Numeral == [x \in {"0", "3", "5", "9"} |->
              CASE x = "0" -> 0 [] x = "3" -> 3 [] x = "5" -> 5 [] x = "9" -> 9]

\* Number(v): what Joi.number() and the Number schema type convert v to
CastNumber(v) ==
    IF v.k = "num" THEN v.n
    ELSE IF v.k = "str" /\ v.s \in DOMAIN Numeral THEN Numeral[v.s]
    ELSE NaN

\* String schema type
CastString(v) == v.s

\* JS truthiness, as used by `a || b`
Truthy(v) ==
    \/ v.k = "str" /\ v.s # ""
    \/ v.k = "num" /\ v.n # 0

OrElse(v, old) == IF Truthy(v) THEN v ELSE old

ValidUris == {"http://img"}

\* ---------------------------------------------------------------- documents
NoDoc == [id |-> 0]
NoFile == "nofile"
Files == {"a.png", "b.png"}     \* files the upload middleware accepts

FieldNames == <<"name", "description", "price", "category", "stock", "imageUrl">>

EmptyBody == [name |-> Absent, description |-> Absent, price |-> Absent,
              category |-> Absent, stock |-> Absent, imageUrl |-> Absent]

\* productSchema: the document persisted for the given field values
MkDoc(i, name, description, price, category, stock, imageUrl) ==
    [id |-> i,
     name |-> CastString(name),
     description |-> CastString(description),
     price |-> CastNumber(price),
     category |-> CastString(category),
     stock |-> CastNumber(stock),
     imageUrl |-> CastString(imageUrl)]

\* productSchema's validators (required, castable) on the values to persist
SchemaOk(name, description, price, category, stock) ==
    /\ name.k # "absent" /\ CastString(name) # ""
    /\ description.k # "absent" /\ CastString(description) # ""
    /\ price.k # "absent" /\ CastNumber(price) # NaN
    /\ category.k # "absent" /\ CastString(category) # ""
    /\ stock.k = "absent" \/ CastNumber(stock) # NaN

\* ---------------------------------------------------------------- tokens
\* A JSON web token: who signed it, its iat and exp claims, its payload.
EmptyTok == [sig |-> "", iat |-> 0, exp |-> 0, userId |-> 0, role |-> ""]
Jwt(sig, iat, userId, role) ==
    [sig |-> sig, iat |-> iat, exp |-> iat + ExpiresIn, userId |-> userId, role |-> role]

\* jwt.verify that does not look at the expiry
JwtVerifyNoExpiry(t) == t.sig = "JWT_SECRET"

\* jwt.verify(token, process.env.JWT_SECRET): signature and expiry
JwtVerify(t) == t.sig = "JWT_SECRET" /\ clock < t.exp
Decoded(t) == [userId |-> t.userId, role |-> t.role]
NoUser == [userId |-> 0, role |-> ""]

\* The Authorization header: missing, or a value made of an optional
\* "Bearer " prefix and a (possibly empty) token.
Header(present, bearer, tok) == [present |-> present, bearer |-> bearer, tok |-> tok]
NoHeader == Header(FALSE, FALSE, EmptyTok)

\* req.header("Authorization").replace("Bearer ", ""): what is left of the value
ExtractToken(h) == h.tok

\* The tokens presented to the products router one hour after time 0: two
\* issued at that moment, a forged one, and one issued at time 0.
Tokens == {Jwt("JWT_SECRET", ExpiresIn, 1, "admin"), Jwt("JWT_SECRET", ExpiresIn, 1, "user"),
           Jwt("forged", ExpiresIn, 1, "admin"), Jwt("JWT_SECRET", 0, 1, "admin")}

Headers == {NoHeader, Header(TRUE, FALSE, EmptyTok), Header(TRUE, TRUE, EmptyTok)}
           \cup {Header(TRUE, TRUE, t) : t \in Tokens}

\* ---------------------------------------------------------------- users
AuthClients == {"c1", "c2"}
Emails == {"a@x.com", "b@x.com"}
Passwords == {"p1", "p2"}
Salts == {"s1"}           \* the salts genSalt draws
Roles == {"user", "admin"}

\* A password field: the plaintext as received, or a bcrypt digest of `text`
\* made with `salt`; `rounds` counts how often the value went through hash.
Plain(p) == [kind |-> "plain", text |-> p, salt |-> "", rounds |-> 0]

\* bcrypt.hash(value, salt)
BcryptHash(v, salt) ==
    [kind |-> "hash", text |-> v.text, salt |-> salt, rounds |-> v.rounds + 1]

\* bcrypt.compare(candidate, stored): stored is the digest of candidate
BcryptCompare(candidate, stored) ==
    stored.kind = "hash" /\ stored.rounds = 1 /\ stored.text = candidate

\* userSchema
NoUserDoc == [id |-> 0, name |-> "", email |-> "", password |-> Plain(""), role |-> ""]
MkUser(name, email, password, role) ==
    [id |-> 0, name |-> name, email |-> email, password |-> Plain(password),
     role |-> IF role = Absent THEN "user" ELSE role.s]
UserValid(doc) == doc.role \in Roles

\* a pre-save hook that hashes on every save
PreSaveAlways(doc, modified, salt) == [doc EXCEPT !.password = BcryptHash(@, salt)]

\* userSchema.pre("save"): hash the password when it was modified
PreSave(doc, modified, salt) ==
    IF "password" \notin modified THEN doc
    ELSE [doc EXCEPT !.password = BcryptHash(@, salt)]

\* userSchema.methods.comparePassword
ComparePassword(doc, candidatePassword) == BcryptCompare(candidatePassword, doc.password)

\* the collection without the unique index on email
NoUniqueIndex(email) == TRUE

\* email: { unique: true }: the index refuses a second document of an email
UniqueIndex(email) == \A k \in 1..Len(users) : users[k].email # email

\* User.findOne({ email })
FindOneByEmail(email) ==
    IF \E k \in 1..Len(users) : users[k].email = email
    THEN users[CHOOSE k \in 1..Len(users) :
                  /\ users[k].email = email
                  /\ \A j \in 1..(k - 1) : users[j].email # email]
    ELSE NoUserDoc

\* jwt.sign with expiresIn: "2h"
SignTokenTwoHours(user) ==
    [Jwt("JWT_SECRET", clock, user.id, user.role) EXCEPT !.exp = @ + ExpiresIn]

\* jwt.sign({ userId: user._id, role: user.role }, JWT_SECRET, { expiresIn: "1h" })
SignToken(user) == Jwt("JWT_SECRET", clock, user.id, user.role)

\* An /auth request and its response.
NoSess == [phase |-> "idle", op |-> "", step |-> 0,
           email |-> "", password |-> "", role |-> Absent, doc |-> NoUserDoc,
           status |-> 0, msg |-> "", token |-> EmptyTok]

SessRespond(c, s, msg, token) ==
    [sess EXCEPT ![c] = [NoSess EXCEPT !.phase = "done", !.op = sess[c].op,
                                       !.status = s, !.msg = msg, !.token = token]]

\* the answer of the login route; the request stays on record with it
LoginRespond(c, s, msg, token) ==
    [SessRespond(c, s, msg, token) EXCEPT ![c].email = sess[c].email,
                                          ![c].password = sess[c].password,
                                          ![c].doc = sess[c].doc]

InFlight == {c \in DOMAIN sess : sess[c].phase = "run" /\ sess[c].op = "register"}

\* POST /auth/register arrives
RegisterStart(c) ==
    /\ sess[c].phase \in {"idle", "done"}
    /\ Len(users) + Cardinality(InFlight) < MaxUsers
    /\ \E e \in Emails, p \in Passwords, r \in {Absent, S("admin"), S("root")} :
          sess' = [sess EXCEPT ![c] = [NoSess EXCEPT !.phase = "run", !.op = "register",
                                                     !.step = 1, !.email = e,
                                                     !.password = p, !.role = r]]
    /\ UNCHANGED <<store, nextId, conn, deleted, users, clock, disk>>

\* new User({...}); user.save() up to the insert: validation, then the
\* pre-save hook on a new document, whose every path is modified
RegisterSave(c) ==
    /\ sess[c].phase = "run" /\ sess[c].op = "register" /\ sess[c].step = 1
    /\ LET doc == MkUser("n", sess[c].email, sess[c].password, sess[c].role)
       IN IF ~UserValid(doc)
          THEN sess' = SessRespond(c, 400, "User validation failed", EmptyTok)
          ELSE \E salt \in Salts :
                  sess' = [sess EXCEPT ![c].step = 2,
                             ![c].doc = PreSave(doc, {"name", "email", "password", "role"}, salt)]
    /\ UNCHANGED <<store, nextId, conn, deleted, users, clock, disk>>

\* user.save(): the insert, and the response of the register route
RegisterInsert(c) ==
    /\ sess[c].phase = "run" /\ sess[c].op = "register" /\ sess[c].step = 2
    /\ IF UniqueIndex(sess[c].doc.email)
       THEN /\ users' = Append(users, [sess[c].doc EXCEPT !.id = Len(users) + 1])
            /\ sess' = SessRespond(c, 201, "User registered successfully", EmptyTok)
       ELSE /\ users' = users
            /\ sess' = SessRespond(c, 400, "E11000 duplicate key error", EmptyTok)
    /\ UNCHANGED <<store, nextId, conn, deleted, clock, disk>>

\* A stored user is loaded, renamed and saved again (the users router).
SaveUser ==
    /\ \E k \in 1..Len(users), salt \in Salts :
          /\ users[k].name = "n"
          /\ users' = [users EXCEPT ![k] = PreSave([@ EXCEPT !.name = "m"], {"name"}, salt)]
    /\ UNCHANGED <<store, nextId, conn, deleted, sess, clock, disk>>

\* POST /auth/login arrives
LoginStart(c) ==
    /\ sess[c].phase \in {"idle", "done"}
    /\ \E e \in Emails, p \in Passwords :
          sess' = [sess EXCEPT ![c] = [NoSess EXCEPT !.phase = "run", !.op = "login",
                                                     !.step = 1, !.email = e,
                                                     !.password = p]]
    /\ UNCHANGED <<store, nextId, conn, deleted, users, clock, disk>>

\* login that tells an unknown email apart
LoginFindNotFound(c) ==
    /\ sess[c].phase = "run" /\ sess[c].op = "login" /\ sess[c].step = 1
    /\ LET user == FindOneByEmail(sess[c].email)
       IN sess' = IF user = NoUserDoc
                  THEN LoginRespond(c, 404, "User not found", EmptyTok)
                  ELSE [sess EXCEPT ![c].step = 2, ![c].doc = user]
    /\ UNCHANGED <<store, nextId, conn, deleted, users, clock, disk>>

\* login, up to the answer of User.findOne
LoginFind(c) ==
    /\ sess[c].phase = "run" /\ sess[c].op = "login" /\ sess[c].step = 1
    /\ LET user == FindOneByEmail(sess[c].email)
       IN sess' = IF user = NoUserDoc
                  THEN LoginRespond(c, 400, "Invalid email or password", EmptyTok)
                  ELSE [sess EXCEPT ![c].step = 2, ![c].doc = user]
    /\ UNCHANGED <<store, nextId, conn, deleted, users, clock, disk>>

\* login, from the answer of comparePassword on
LoginCompare(c) ==
    /\ sess[c].phase = "run" /\ sess[c].op = "login" /\ sess[c].step = 2
    /\ sess' = IF ~ComparePassword(sess[c].doc, sess[c].password)
               THEN LoginRespond(c, 400, "Invalid email or password", EmptyTok)
               ELSE LoginRespond(c, 200, "", SignToken(sess[c].doc))
    /\ UNCHANGED <<store, nextId, conn, deleted, users, clock, disk>>

\* time passes
Tick ==
    /\ clock + TickStep <= MaxTime
    /\ clock' = clock + TickStep
    /\ UNCHANGED <<store, nextId, conn, deleted, users, sess, disk>>

\* ---------------------------------------------------------------- requests
Bodies == [name : {Absent, S("A"), S("B")},
           description : {Absent, S("d")},
           price : {Absent, S("5"), S("x")},
           category : {Absent, S("mugs")},
           stock : {Absent, S("3")},
           imageUrl : {Absent, S("http://img"), S("bad")}]

Methods == {"POST", "GET", "PUT", "DELETE"}

NoOut == [kind |-> "none", doc |-> NoDoc, field |-> "", msg |-> "",
          total |-> 0, products |-> <<>>]
ErrorOut(field, msg) == [NoOut EXCEPT !.kind = "error", !.field = field, !.msg = msg]
ProductOut(d) == [NoOut EXCEPT !.kind = "product", !.doc = d]
DeletedOut(d) == [NoOut EXCEPT !.kind = "deleted", !.doc = d,
                               !.msg = "Product deleted successfully"]
ListOut(total, products) == [NoOut EXCEPT !.kind = "list", !.total = total,
                                          !.products = products]

\* req.query of GET /products
NoQuery == [page |-> Absent, limit |-> Absent, category |-> Absent,
            sortBy |-> Absent, sortOrder |-> Absent]
Queries == [page : {Absent, S("0"), S("1"), S("2")},
            limit : {Absent, S("0"), S("1"), S("2")},
            category : {Absent, S("mugs"), S("beans")},
            sortBy : {Absent, S("price")},
            sortOrder : {Absent, S("desc")}]

Idle == [phase |-> "idle", idx |-> 0, method |-> "GET", id |-> BadId,
         header |-> NoHeader, file |-> NoFile, body |-> EmptyBody,
         user |-> NoUser, existing |-> NoDoc,
         query |-> NoQuery, listed |-> FALSE, products |-> <<>>,
         ran |-> <<>>, status |-> 0, out |-> NoOut]

\* the routes declared with the role gate in front of the authentication gate
ChainRoleFirst(method) ==
    CASE method = "POST" -> <<"role", "auth", "upload", "validateProduct", "create">>
      [] method = "GET" -> <<"getById">>
      [] method = "PUT" -> <<"role", "auth", "upload", "validateProduct", "update">>
      [] method = "DELETE" -> <<"delete">>
      [] method = "LIST" -> <<"list">>
      [] method = "USERS" -> <<"auth", "auth", "getUsers">>

\* The middleware list each route of the products router is declared with.
Chain(method) ==
    CASE method = "POST" -> <<"auth", "role", "upload", "validateProduct", "create">>
      [] method = "GET" -> <<"getById">>
      [] method = "PUT" -> <<"auth", "role", "upload", "validateProduct", "update">>
      [] method = "DELETE" -> <<"delete">>
      [] method = "LIST" -> <<"list">>
      [] method = "USERS" -> <<"auth", "auth", "getUsers">>

\* the middleware Express runs next for client c
Current(c) ==
    IF conn[c].phase = "run" THEN Chain(conn[c].method)[conn[c].idx] ELSE "-"

\* res.status(s).json(o): the middleware answers; nothing after it runs, and
\* the parsed form (req.body, req.file) and the handler's locals are gone.
Respond(c, mw, s, o) ==
    [conn EXCEPT ![c].phase = "done", ![c].status = s, ![c].out = o,
                 ![c].ran = Append(@, mw),
                 ![c].body = EmptyBody, ![c].file = NoFile, ![c].existing = NoDoc,
                 ![c].listed = FALSE, ![c].products = <<>>]

\* next(): the following middleware of the chain runs
CallNext(c, mw) ==
    [conn EXCEPT ![c].idx = @ + 1, ![c].ran = Append(@, mw)]

\* errorHandler: an error passed to next(err) or thrown by a middleware
ErrorHandler(c, mw) ==
    Respond(c, mw, 500, ErrorOut("", "Something went wrong!"))

\* A request arrives at the products router.
ReceiveOf(c, methods, ids, headers) ==
    /\ conn[c].phase \in {"idle", "done"}
    /\ \E m \in methods, i \in ids, h \in headers :
          /\ m = "POST" => i = BadId /\ nextId <= MaxId
          /\ conn' = [conn EXCEPT ![c] = [Idle EXCEPT !.phase = "run", !.idx = 1,
                                              !.method = m, !.id = i, !.header = h]]
    /\ UNCHANGED <<store, nextId, deleted>>
    /\ UNCHANGED <<users, sess, clock, disk>>

Receive(c) == ReceiveOf(c, Methods, Ids \cup {BadId}, Headers)

\* ---------------------------------------------------------------- middleware
\* auth without the `if (!token)` branch: an empty token goes to jwt.verify
AuthNoEmptyCheck(c) ==
    /\ Current(c) = "auth"
    /\ LET h == conn[c].header
           token == ExtractToken(h)
       IN conn' =
            IF ~h.present
            THEN Respond(c, "auth", 401, ErrorOut("", "Authorization header is missing."))
            ELSE IF JwtVerify(token)
            THEN [CallNext(c, "auth") EXCEPT ![c].user = Decoded(token)]
            ELSE Respond(c, "auth", 400, ErrorOut("", "Invalid token."))
    /\ UNCHANGED <<store, nextId, deleted>>
    /\ UNCHANGED <<users, sess, clock, disk>>

\* middleware/auth.js
Auth(c) ==
    /\ Current(c) = "auth"
    /\ LET h == conn[c].header
           token == ExtractToken(h)
       IN conn' =
            IF ~h.present
            THEN Respond(c, "auth", 401, ErrorOut("", "Authorization header is missing."))
            ELSE IF token = EmptyTok
            THEN Respond(c, "auth", 401, ErrorOut("", "Access denied. No token provided."))
            ELSE IF JwtVerify(token)
            THEN [CallNext(c, "auth") EXCEPT ![c].user = Decoded(token)]
            ELSE Respond(c, "auth", 400, ErrorOut("", "Invalid token."))
    /\ UNCHANGED <<store, nextId, deleted>>
    /\ UNCHANGED <<users, sess, clock, disk>>

\* role that only asks for an authenticated user, whatever the role
RoleAnyUser(c, requiredRole) ==
    /\ Current(c) = "role"
    /\ conn' =
         IF conn[c].user = NoUser
         THEN ErrorHandler(c, "role")
         ELSE CallNext(c, "role")
    /\ UNCHANGED <<store, nextId, deleted>>
    /\ UNCHANGED <<users, sess, clock, disk>>

\* role that looks the user of the token up in the user store and reads the
\* role stored there
RoleFromStore(c, requiredRole) ==
    /\ Current(c) = "role"
    /\ conn' =
         IF conn[c].user = NoUser
         THEN ErrorHandler(c, "role")
         ELSE IF ~\E k \in 1..Len(users) : /\ users[k].id = conn[c].user.userId
                                            /\ users[k].role = requiredRole
         THEN Respond(c, "role", 403, ErrorOut("", "Access denied."))
         ELSE CallNext(c, "role")
    /\ UNCHANGED <<store, nextId, deleted>>
    /\ UNCHANGED <<users, sess, clock, disk>>

\* middleware/role.js: role(requiredRole)
Role(c, requiredRole) ==
    /\ Current(c) = "role"
    /\ conn' =
         IF conn[c].user = NoUser
         THEN ErrorHandler(c, "role")    \* req.user is undefined: TypeError
         ELSE IF conn[c].user.role # requiredRole
         THEN Respond(c, "role", 403, ErrorOut("", "Access denied."))
         ELSE CallNext(c, "role")
    /\ UNCHANGED <<store, nextId, deleted>>
    /\ UNCHANGED <<users, sess, clock, disk>>

\* the storage engine's filename: the time of the upload and the original name
FileName(t, f) == ToString(t) \o "-" \o f

\* req.file.path of a stored file
StoragePath(name) == IF name = NoFile THEN "" ELSE "uploads/" \o name

\* The upload directory: how often each path was written (2: more than once).
\* A specification that does not observe the directory keeps it switched off.
Times == {k * TickStep : k \in 0..(MaxTime \div TickStep)}
AllPaths == {StoragePath(FileName(t, f)) : t \in Times, f \in Files}
NoDisk == [on |-> FALSE, files |-> [p \in AllPaths |-> 0]]
EmptyDisk == [on |-> TRUE, files |-> [p \in AllPaths |-> 0]]
WriteFile(d, p) ==
    IF d.on THEN [d EXCEPT !.files[p] = IF @ = 0 THEN 1 ELSE 2] ELSE d

\* middleware/upload.js: upload.single("image") parses the multipart request,
\* leaving the text fields in req.body and the image, if any, in req.file.
UploadOf(c, files, bodies) ==
    /\ Current(c) = "upload"
    /\ \/ /\ conn' = ErrorHandler(c, "upload")      \* next(err): the file is refused
          /\ disk' = disk
       \/ \E f \in files, b \in bodies :
             IF f = NoFile
             THEN /\ conn' = [CallNext(c, "upload") EXCEPT ![c].body = b]
                  /\ disk' = disk
             ELSE /\ conn' = [CallNext(c, "upload") EXCEPT
                                  ![c].file = FileName(clock, f), ![c].body = b]
                  /\ disk' = WriteFile(disk, StoragePath(FileName(clock, f)))
    /\ UNCHANGED <<store, nextId, deleted>>
    /\ UNCHANGED <<users, sess, clock>>

Upload(c) == UploadOf(c, Files \cup {NoFile}, Bodies)

\* Joi.string()
CheckString(v) ==
    CASE v.k = "num" -> "must be a string"
      [] v.k = "str" /\ v.s = "" -> "is not allowed to be empty"
      [] OTHER -> ""

\* Joi.number()
CheckNumber(v) ==
    IF CastNumber(v) = NaN THEN "must be a number" ELSE ""

\* Joi.string().uri()
CheckUri(v) ==
    IF CheckString(v) # "" THEN CheckString(v)
    ELSE IF v.s \notin ValidUris THEN "must be a valid uri" ELSE ""

\* .required(), and the absence of it
Required(v, msg) == IF v.k = "absent" THEN "is required" ELSE msg
Optional(v, msg) == IF v.k = "absent" THEN "" ELSE msg

\* the schema with stock optional, as it is in productSchema
SchemaCheckStockOptional(b, f) ==
    CASE f = "name" -> Required(b.name, CheckString(b.name))
      [] f = "description" -> Required(b.description, CheckString(b.description))
      [] f = "price" -> Required(b.price, CheckNumber(b.price))
      [] f = "category" -> Required(b.category, CheckString(b.category))
      [] f = "stock" -> Optional(b.stock, CheckNumber(b.stock))
      [] f = "imageUrl" -> Optional(b.imageUrl, CheckUri(b.imageUrl))

\* the schema of validateProduct, key by key
SchemaCheck(b, f) ==
    CASE f = "name" -> Required(b.name, CheckString(b.name))
      [] f = "description" -> Required(b.description, CheckString(b.description))
      [] f = "price" -> Required(b.price, CheckNumber(b.price))
      [] f = "category" -> Required(b.category, CheckString(b.category))
      [] f = "stock" -> Required(b.stock, CheckNumber(b.stock))
      [] f = "imageUrl" -> Optional(b.imageUrl, CheckUri(b.imageUrl))

\* schema.validate(req.body).error.details[0]: the first key in violation
Violations(b) == {k \in 1..Len(FieldNames) : SchemaCheck(b, FieldNames[k]) # ""}
FirstViolation(b) ==
    IF Violations(b) = {} THEN 0
    ELSE CHOOSE k \in Violations(b) : \A j \in Violations(b) : k <= j

\* middleware/validate.js: validateProduct
ValidateProduct(c) ==
    /\ Current(c) = "validateProduct"
    /\ LET b == conn[c].body
           k == FirstViolation(b)
       IN conn' =
            IF k # 0
            THEN Respond(c, "validateProduct", 400,
                         ErrorOut(FieldNames[k], SchemaCheck(b, FieldNames[k])))
            ELSE CallNext(c, "validateProduct")
    /\ UNCHANGED <<store, nextId, deleted>>
    /\ UNCHANGED <<users, sess, clock, disk>>

\* ---------------------------------------------------------------- persistence
\* Product.findById(id): the document, or null; a malformed id is a CastError
IsCastError(i) == i = BadId
FindById(i) == IF i \in Ids THEN store[i] ELSE NoDoc

\* ---------------------------------------------------------------- handlers
\* the product built without the image path (req.file not consulted)
NewProductNoImage(i, b, file) ==
    MkDoc(i, b.name, b.description, b.price, b.category, b.stock, S(""))

\* new Product({name, description, price, category, stock, imageUrl})
NewProduct(i, b, file) ==
    MkDoc(i, b.name, b.description, b.price, b.category, b.stock, S(StoragePath(file)))

\* POST without the `if (!req.file)` check
CreateNoFileCheck(c) ==
    /\ Current(c) = "create"
    /\ LET r == conn[c]
           b == r.body
           product == NewProduct(nextId, b, r.file)
       IN IF ~SchemaOk(b.name, b.description, b.price, b.category, b.stock)
          THEN /\ conn' = Respond(c, "create", 400, ErrorOut("", "Product validation failed"))
               /\ UNCHANGED <<store, nextId>>
          ELSE /\ store' = [store EXCEPT ![nextId] = product]
               /\ nextId' = nextId + 1
               /\ conn' = Respond(c, "create", 201, ProductOut(product))
    /\ UNCHANGED deleted
    /\ UNCHANGED <<users, sess, clock, disk>>

\* POST /products
Create(c) ==
    /\ Current(c) = "create"
    /\ LET r == conn[c]
           b == r.body
           product == NewProduct(nextId, b, r.file)
       IN IF r.file = NoFile
          THEN /\ conn' = Respond(c, "create", 400, ErrorOut("", "File upload failed"))
               /\ UNCHANGED <<store, nextId>>
          ELSE IF ~SchemaOk(b.name, b.description, b.price, b.category, b.stock)
          THEN /\ conn' = Respond(c, "create", 400, ErrorOut("", "Product validation failed"))
               /\ UNCHANGED <<store, nextId>>
          ELSE /\ store' = [store EXCEPT ![nextId] = product]
               /\ nextId' = nextId + 1
               /\ conn' = Respond(c, "create", 201, ProductOut(product))
    /\ UNCHANGED deleted
    /\ UNCHANGED <<users, sess, clock, disk>>

\* GET /products/:id
GetById(c) ==
    /\ Current(c) = "getById"
    /\ LET i == conn[c].id
       IN conn' =
            IF IsCastError(i)
            THEN Respond(c, "getById", 500, ErrorOut("", "Cast to ObjectId failed"))
            ELSE IF FindById(i) = NoDoc
            THEN Respond(c, "getById", 404, ErrorOut("", "Product not found"))
            ELSE Respond(c, "getById", 200, ProductOut(FindById(i)))
    /\ UNCHANGED <<store, nextId, deleted>>
    /\ UNCHANGED <<users, sess, clock, disk>>

\* PUT without the `if (!existingProduct)` check: reading a field of null throws
UpdateFindNoNullCheck(c) ==
    /\ Current(c) = "update"
    /\ conn[c].existing = NoDoc
    /\ LET i == conn[c].id
       IN conn' =
            IF IsCastError(i)
            THEN Respond(c, "update", 400, ErrorOut("", "Cast to ObjectId failed"))
            ELSE IF FindById(i) = NoDoc
            THEN Respond(c, "update", 400, ErrorOut("", "Cannot read properties of null"))
            ELSE [conn EXCEPT ![c].existing = FindById(i)]
    /\ UNCHANGED <<store, nextId, deleted>>
    /\ UNCHANGED <<users, sess, clock, disk>>

\* PUT /products/:id, up to the answer of Product.findById
UpdateFind(c) ==
    /\ Current(c) = "update"
    /\ conn[c].existing = NoDoc
    /\ LET i == conn[c].id
       IN conn' =
            IF IsCastError(i)
            THEN Respond(c, "update", 400, ErrorOut("", "Cast to ObjectId failed"))
            ELSE IF FindById(i) = NoDoc
            THEN Respond(c, "update", 404, ErrorOut("", "Product not found"))
            ELSE [conn EXCEPT ![c].existing = FindById(i)]
    /\ UNCHANGED <<store, nextId, deleted>>
    /\ UNCHANGED <<users, sess, clock, disk>>

\* the update document of the earlier revision: without a file, imageUrl is
\* req.body.imageUrl
UpdateDocBodyImage(b, file, existing) ==
    MkDoc(existing.id,
          OrElse(b.name, S(existing.name)),
          OrElse(b.description, S(existing.description)),
          OrElse(b.price, N(existing.price)),
          OrElse(b.category, S(existing.category)),
          OrElse(b.stock, N(existing.stock)),
          IF file # NoFile THEN S(StoragePath(file)) ELSE b.imageUrl)

\* the update document PUT builds from the body and the product it read
UpdateDoc(b, file, existing) ==
    MkDoc(existing.id,
          OrElse(b.name, S(existing.name)),
          OrElse(b.description, S(existing.description)),
          OrElse(b.price, N(existing.price)),
          OrElse(b.category, S(existing.category)),
          OrElse(b.stock, N(existing.stock)),
          IF file # NoFile /\ StoragePath(file) # ""
          THEN S(StoragePath(file)) ELSE S(existing.imageUrl))

\* PUT /products/:id, from Product.findByIdAndUpdate on
UpdateWrite(c) ==
    /\ Current(c) = "update"
    /\ conn[c].existing # NoDoc
    /\ LET r == conn[c]
           updated == UpdateDoc(r.body, r.file, r.existing)
       IN IF FindById(r.id) = NoDoc
          THEN /\ conn' = Respond(c, "update", 200, ProductOut(NoDoc))
               /\ UNCHANGED store
          ELSE /\ store' = [store EXCEPT ![r.id] = updated]
               /\ conn' = Respond(c, "update", 200, ProductOut(updated))
    /\ UNCHANGED <<nextId, deleted>>
    /\ UNCHANGED <<users, sess, clock, disk>>

\* DELETE that looks the product up (findById) and never removes it
DeleteKeeps(c) ==
    /\ Current(c) = "delete"
    /\ LET i == conn[c].id
       IN IF IsCastError(i)
          THEN /\ conn' = Respond(c, "delete", 500, ErrorOut("", "Cast to ObjectId failed"))
               /\ UNCHANGED <<store, deleted>>
          ELSE IF FindById(i) = NoDoc
          THEN /\ conn' = Respond(c, "delete", 404, ErrorOut("", "Product not found"))
               /\ UNCHANGED <<store, deleted>>
          ELSE /\ UNCHANGED store
               /\ deleted' = deleted \cup {i}
               /\ conn' = Respond(c, "delete", 200, DeletedOut(FindById(i)))
    /\ UNCHANGED nextId
    /\ UNCHANGED <<users, sess, clock, disk>>

\* DELETE with an empty filter (deleteMany): every product goes
DeleteAll(c) ==
    /\ Current(c) = "delete"
    /\ LET i == conn[c].id
       IN IF IsCastError(i)
          THEN /\ conn' = Respond(c, "delete", 500, ErrorOut("", "Cast to ObjectId failed"))
               /\ UNCHANGED <<store, deleted>>
          ELSE IF FindById(i) = NoDoc
          THEN /\ conn' = Respond(c, "delete", 404, ErrorOut("", "Product not found"))
               /\ UNCHANGED <<store, deleted>>
          ELSE /\ store' = [j \in Ids |-> NoDoc]
               /\ deleted' = deleted \cup {i}
               /\ conn' = Respond(c, "delete", 200, DeletedOut(FindById(i)))
    /\ UNCHANGED nextId
    /\ UNCHANGED <<users, sess, clock, disk>>

\* DELETE /products/:id
Delete(c) ==
    /\ Current(c) = "delete"
    /\ LET i == conn[c].id
       IN IF IsCastError(i)
          THEN /\ conn' = Respond(c, "delete", 500, ErrorOut("", "Cast to ObjectId failed"))
               /\ UNCHANGED <<store, deleted>>
          ELSE IF FindById(i) = NoDoc
          THEN /\ conn' = Respond(c, "delete", 404, ErrorOut("", "Product not found"))
               /\ UNCHANGED <<store, deleted>>
          ELSE /\ store' = [store EXCEPT ![i] = NoDoc]
               /\ deleted' = deleted \cup {i}
               /\ conn' = Respond(c, "delete", 200, DeletedOut(FindById(i)))
    /\ UNCHANGED nextId
    /\ UNCHANGED <<users, sess, clock, disk>>

\* ---------------------------------------------------------------- JSON requests
\* The bodies of application/json PUT requests: express.json() leaves the
\* numbers of the document as numbers in req.body.
JsonBodies == [name : {S("A"), S("B")},
               description : {S("d")},
               price : {N(0), N(5), S("0")},
               category : {S("mugs")},
               stock : {N(0), N(3)},
               imageUrl : {Absent}]

\* A PUT /products/:id request with a JSON body arrives.
ReceivePut(c) ==
    /\ conn[c].phase \in {"idle", "done"}
    /\ \E i \in Ids \cup {BadId}, h \in Headers :
          conn' = [conn EXCEPT ![c] = [Idle EXCEPT !.phase = "run", !.idx = 1,
                                           !.method = "PUT", !.id = i, !.header = h]]
    /\ UNCHANGED <<store, nextId, deleted, users, sess, clock, disk>>

\* upload.single("image") on a request that is not multipart: req.body is
\* the parsed JSON document, there is no req.file, and next() is called
UploadJson(c) ==
    /\ Current(c) = "upload"
    /\ \E b \in JsonBodies :
          conn' = [CallNext(c, "upload") EXCEPT ![c].body = b]
    /\ UNCHANGED <<store, nextId, deleted, users, sess, clock, disk>>

\* ---------------------------------------------------------------- concurrent requests
\* Two clients that hold an admin's token send multipart requests.
RaceClients == {"c1", "c2"}
AdminHeader == Header(TRUE, TRUE, Jwt("JWT_SECRET", ExpiresIn, 1, "admin"))
FullBody == [name |-> S("A"), description |-> S("d"), price |-> S("5"),
             category |-> S("mugs"), stock |-> S("3"), imageUrl |-> Absent]
DiskBodies == {FullBody, [FullBody EXCEPT !.stock = Absent]}

ReceiveDisk(c) == ReceiveOf(c, {"POST", "PUT", "DELETE"}, {1, BadId}, {AdminHeader})
UploadDisk(c) == UploadOf(c, {"a.png", NoFile}, DiskBodies)

\* ---------------------------------------------------------------- tokens and the user store
\* A PUT /products/:id request without a file arrives, with the token of the
\* client's login response.
ReceivePutAs(c) ==
    /\ conn[c].phase \in {"idle", "done"}
    /\ sess[c].token # EmptyTok
    /\ \E i \in Ids \cup {BadId} :
          conn' = [conn EXCEPT ![c] = [Idle EXCEPT !.phase = "run", !.idx = 1,
                                           !.method = "PUT", !.id = i,
                                           !.header = Header(TRUE, TRUE, sess[c].token)]]
    /\ UNCHANGED <<store, nextId, deleted, users, sess, clock, disk>>

UploadPlain(c) == UploadOf(c, {NoFile}, {FullBody})

\* router.put("/:id", auth, ...): the stored role of a user is changed
UpdateUserRole ==
    /\ \E k \in 1..Len(users), r \in Roles :
          /\ users[k].role # r
          /\ users' = [users EXCEPT ![k].role = r]
    /\ UNCHANGED <<store, nextId, conn, deleted, sess, clock, disk>>

\* router.delete("/:id", auth, ...): a user is deleted
DeleteUser ==
    /\ \E k \in 1..Len(users) :
          users' = SubSeq(users, 1, k - 1) \o SubSeq(users, k + 1, Len(users))
    /\ UNCHANGED <<store, nextId, conn, deleted, sess, clock, disk>>

\* ---------------------------------------------------------------- GET /products
\* A GET /products request arrives. A client that has an answer asks again
\* with the same filter, sort and limit, and any page.
ReceiveListOf(c, queries) ==
    /\ conn[c].phase \in {"idle", "done"}
    /\ \E q \in queries :
          /\ conn[c].phase = "done" =>
                \A f \in {"limit", "category", "sortBy", "sortOrder"} :
                    q[f] = conn[c].query[f]
          /\ conn' = [conn EXCEPT ![c] = [Idle EXCEPT !.phase = "run", !.idx = 1,
                                              !.method = "LIST", !.query = q]]
    /\ UNCHANGED <<store, nextId, deleted, users, sess, clock, disk>>

ReceiveList(c) == ReceiveListOf(c, Queries)

\* the number a query string stands for in arithmetic and in parseInt
QueryNumber(v) ==
    CASE v.k = "num" -> v.n
      [] v.s = "0" -> 0
      [] v.s = "1" -> 1
      [] v.s = "2" -> 2
      [] v.s = "3" -> 3
      [] OTHER -> NaN

\* const { page = 1, limit = 10, sortOrder = "asc" } = req.query
PageOf(q) == IF q.page = Absent THEN N(1) ELSE q.page
LimitOf(q) == IF q.limit = Absent THEN N(10) ELSE q.limit
SortOrderOf(q) == IF q.sortOrder = Absent THEN S("asc") ELSE q.sortOrder

\* page * limit in place of (page - 1) * limit
SkipFromPage(q) == QueryNumber(PageOf(q)) * QueryNumber(LimitOf(q))

\* (page - 1) * limit
SkipOf(q) == (QueryNumber(PageOf(q)) - 1) * QueryNumber(LimitOf(q))

\* filter = category ? { category } : {}
Matches(d, q) ==
    /\ d # NoDoc
    /\ Truthy(q.category) => d.category = q.category.s

\* sort = sortBy ? { [sortBy]: sortOrder === "asc" ? 1 : -1 } : {}
SortDir(q) ==
    IF ~Truthy(q.sortBy) THEN 0
    ELSE IF SortOrderOf(q) = S("asc") THEN 1 ELSE -1
SortKey(d, q) ==
    CASE q.sortBy.s = "price" -> d.price
      [] q.sortBy.s = "stock" -> d.stock
      [] OTHER -> 0

\* the order of the cursor: by the sort key in the sort direction, documents
\* of equal key (and every document when there is no sort) in insertion order
Before(a, b, q) ==
    LET ka == SortDir(q) * SortKey(a, q)
        kb == SortDir(q) * SortKey(b, q)
    IN ka < kb \/ (ka = kb /\ a.id <= b.id)

RECURSIVE SortDocs(_, _)
SortDocs(ds, q) ==
    IF ds = {} THEN <<>>
    ELSE LET first == CHOOSE a \in ds : \A b \in ds : Before(a, b, q)
         IN <<first>> \o SortDocs(ds \ {first}, q)

\* .limit(n).skip(k) on a cursor: k documents are skipped, then at most n
\* are returned; a limit of 0 is no limit
SkipLimit(s, k, n) ==
    SubSeq(s, k + 1, IF n = 0 \/ k + n > Len(s) THEN Len(s) ELSE k + n)

\* Product.find(filter).sort(sort).limit(parseInt(limit)).skip(k)
FindProducts(q, k) ==
    SkipLimit(SortDocs({store[i] : i \in {j \in DOMAIN store : Matches(store[j], q)}}, q),
              k, QueryNumber(LimitOf(q)))

\* countDocuments({}) whatever the filter
CountDocumentsNoFilter(q) == Cardinality({i \in DOMAIN store : store[i] # NoDoc})

\* Product.countDocuments(filter)
CountDocuments(q) == Cardinality({i \in DOMAIN store : Matches(store[i], q)})

\* GET /products, up to the answer of find: a negative skip is refused by
\* the database and the catch block answers 500
ListFind(c) ==
    /\ Current(c) = "list"
    /\ ~conn[c].listed
    /\ LET q == conn[c].query
       IN conn' =
            IF SkipOf(q) < 0
            THEN Respond(c, "list", 500, ErrorOut("", "Skip value must be non-negative"))
            ELSE [conn EXCEPT ![c].listed = TRUE,
                              ![c].products = FindProducts(q, SkipOf(q))]
    /\ UNCHANGED <<store, nextId, deleted, users, sess, clock, disk>>

\* GET /products, from the answer of find on: countDocuments and the response
ListCount(c) ==
    /\ Current(c) = "list"
    /\ conn[c].listed
    /\ conn' = Respond(c, "list", 200,
                       ListOut(CountDocuments(conn[c].query), conn[c].products))
    /\ UNCHANGED <<store, nextId, deleted, users, sess, clock, disk>>

\* GET /products while other requests create and delete products
RaceQueries == {NoQuery, [NoQuery EXCEPT !.limit = S("1")]}
ReceiveListRace(c) == ReceiveListOf(c, RaceQueries)
ReceiveRace(c) == ReceiveOf(c, {"POST", "DELETE"}, Ids \cup {BadId}, {AdminHeader})
UploadRace(c) == UploadOf(c, {"a.png"}, {FullBody})

\* ---------------------------------------------------------------- GET /users
\* A GET /users request arrives, with the token of the client's login response.
ReceiveUsers(c) ==
    /\ conn[c].phase \in {"idle", "done"}
    /\ sess[c].token # EmptyTok
    /\ conn' = [conn EXCEPT ![c] = [Idle EXCEPT !.phase = "run", !.idx = 1,
                                        !.method = "USERS",
                                        !.header = Header(TRUE, TRUE, sess[c].token)]]
    /\ UNCHANGED <<store, nextId, deleted, users, sess, clock, disk>>

\* router.get("/", auth, ...): get all users
GetUsers(c) ==
    /\ Current(c) = "getUsers"
    /\ conn' = Respond(c, "getUsers", 200, [NoOut EXCEPT !.kind = "users",
                                                         !.total = Len(users)])
    /\ UNCHANGED <<store, nextId, deleted, users, sess, clock, disk>>

\* ---------------------------------------------------------------- specification
Init ==
    /\ store = [i \in Ids |-> NoDoc]
    /\ nextId = 1
    /\ conn = [c \in Clients |-> Idle]
    /\ deleted = {}
    /\ users = <<>>
    /\ sess = [c \in Clients |-> NoSess]
    /\ clock = ExpiresIn
    /\ disk = NoDisk

Next ==
    \/ \E c \in Clients : Receive(c)
    \/ \E c \in Clients : Auth(c)
    \/ \E c \in Clients : Role(c, "admin")
    \/ \E c \in Clients : Upload(c)
    \/ \E c \in Clients : ValidateProduct(c)
    \/ \E c \in Clients : Create(c)
    \/ \E c \in Clients : GetById(c)
    \/ \E c \in Clients : UpdateFind(c)
    \/ \E c \in Clients : UpdateWrite(c)
    \/ \E c \in Clients : Delete(c)

Spec == Init /\ [][Next]_vars

\* The listing requests, on a collection that earlier requests have filled:
\* MaxList products were created, some were deleted again.
ListIds == 1..MaxList
ListDocs(i) ==
    {MkDoc(i, S("A"), S("d"), N(p), S(cat), N(3), S("uploads/3600-a.png")) :
        p \in {5, 9}, cat \in {"mugs", "beans"}}
ListStores == {s \in [ListIds -> UNION {ListDocs(i) : i \in ListIds} \cup {NoDoc}] :
                  \A i \in ListIds : s[i] = NoDoc \/ s[i].id = i}

InitList ==
    /\ store \in ListStores
    /\ nextId = MaxList + 1
    /\ conn = [c \in Clients |-> Idle]
    /\ deleted = {i \in ListIds : store[i] = NoDoc}
    /\ users = <<>>
    /\ sess = [c \in Clients |-> NoSess]
    /\ clock = ExpiresIn
    /\ disk = NoDisk

NextList ==
    \/ \E c \in Clients : ReceiveList(c)
    \/ \E c \in Clients : ListFind(c)
    \/ \E c \in Clients : ListCount(c)

SpecList == InitList /\ [][NextList]_vars

\* JSON updates of the products that multipart POSTs have created.
InitJson ==
    /\ store = [i \in Ids |-> MkDoc(i, S("A"), S("d"), S("5"), S("mugs"), S("3"),
                                   S("uploads/3600-a.png"))]
    /\ nextId = MaxId + 1
    /\ conn = [c \in Clients |-> Idle]
    /\ deleted = {}
    /\ users = <<>>
    /\ sess = [c \in Clients |-> NoSess]
    /\ clock = ExpiresIn
    /\ disk = NoDisk

NextJson ==
    \/ \E c \in Clients : ReceivePut(c)
    \/ \E c \in Clients : Auth(c)
    \/ \E c \in Clients : Role(c, "admin")
    \/ \E c \in Clients : UploadJson(c)
    \/ \E c \in Clients : ValidateProduct(c)
    \/ \E c \in Clients : UpdateFind(c)
    \/ \E c \in Clients : UpdateWrite(c)

SpecJson == InitJson /\ [][NextJson]_vars

\* The upload directory under the requests of two admin clients.
InitDisk ==
    /\ store = [i \in Ids |-> NoDoc]
    /\ nextId = 1
    /\ conn = [c \in RaceClients |-> Idle]
    /\ deleted = {}
    /\ users = <<>>
    /\ sess = [c \in Clients |-> NoSess]
    /\ clock = ExpiresIn
    /\ disk = EmptyDisk

NextDisk ==
    \/ \E c \in RaceClients : ReceiveDisk(c)
    \/ \E c \in RaceClients : Auth(c)
    \/ \E c \in RaceClients : Role(c, "admin")
    \/ \E c \in RaceClients : UploadDisk(c)
    \/ \E c \in RaceClients : ValidateProduct(c)
    \/ \E c \in RaceClients : Create(c)
    \/ \E c \in RaceClients : UpdateFind(c)
    \/ \E c \in RaceClients : UpdateWrite(c)
    \/ \E c \in RaceClients : Delete(c)
    \/ Tick

SpecDisk == InitDisk /\ [][NextDisk]_vars

\* Registration and login, by two clients.
InitAuth ==
    /\ store = [i \in Ids |-> NoDoc]
    /\ nextId = 1
    /\ conn = [c \in Clients |-> Idle]
    /\ deleted = {}
    /\ users = <<>>
    /\ sess = [c \in AuthClients |-> NoSess]
    /\ clock = 0
    /\ disk = NoDisk

NextAuth ==
    \/ \E c \in AuthClients : RegisterStart(c)
    \/ \E c \in AuthClients : RegisterSave(c)
    \/ \E c \in AuthClients : RegisterInsert(c)
    \/ \E c \in AuthClients : LoginStart(c)
    \/ \E c \in AuthClients : LoginFind(c)
    \/ \E c \in AuthClients : LoginCompare(c)
    \/ SaveUser

SpecAuth == InitAuth /\ [][NextAuth]_vars

\* Tokens over time: two registered users log in and call GET /users while
\* the clock advances.
Registered ==
    <<[PreSave(MkUser("n", "a@x.com", "p1", S("admin")), {"password"}, "s1") EXCEPT !.id = 1],
      [PreSave(MkUser("n", "b@x.com", "p2", Absent), {"password"}, "s1") EXCEPT !.id = 2]>>

InitTok ==
    /\ store = [i \in Ids |-> NoDoc]
    /\ nextId = 1
    /\ conn = [c \in Clients |-> Idle]
    /\ deleted = {}
    /\ users = Registered
    /\ sess = [c \in Clients |-> NoSess]
    /\ clock = 0
    /\ disk = NoDisk

NextTok ==
    \/ \E c \in Clients : LoginStart(c)
    \/ \E c \in Clients : LoginFind(c)
    \/ \E c \in Clients : LoginCompare(c)
    \/ Tick
    \/ \E c \in Clients : ReceiveUsers(c)
    \/ \E c \in Clients : Auth(c)
    \/ \E c \in Clients : GetUsers(c)

SpecTok == InitTok /\ [][NextTok]_vars

\* Listings of one client while it and a second client create and delete
\* products.
InitRace ==
    /\ store = [i \in Ids |-> IF i = 1
                               THEN MkDoc(i, S("A"), S("d"), S("5"), S("mugs"), S("3"),
                                          S("uploads/3600-a.png"))
                               ELSE NoDoc]
    /\ nextId = 2
    /\ conn = [c \in RaceClients |-> Idle]
    /\ deleted = {}
    /\ users = <<>>
    /\ sess = [c \in Clients |-> NoSess]
    /\ clock = ExpiresIn
    /\ disk = NoDisk

NextRace ==
    \/ \E c \in RaceClients : ReceiveListRace(c)
    \/ \E c \in RaceClients : ListFind(c)
    \/ \E c \in RaceClients : ListCount(c)
    \/ \E c \in RaceClients : ReceiveRace(c)
    \/ \E c \in RaceClients : Auth(c)
    \/ \E c \in RaceClients : Role(c, "admin")
    \/ \E c \in RaceClients : UploadRace(c)
    \/ \E c \in RaceClients : ValidateProduct(c)
    \/ \E c \in RaceClients : Create(c)
    \/ \E c \in RaceClients : Delete(c)

SpecRace == InitRace /\ [][NextRace]_vars

\* Tokens against the user store: registered users log in and send PUT
\* requests with their tokens while stored roles change, users are deleted
\* and the clock advances.
InitRole ==
    /\ store = [i \in Ids |-> MkDoc(i, S("A"), S("d"), S("5"), S("mugs"), S("3"),
                                   S("uploads/3600-a.png"))]
    /\ nextId = MaxId + 1
    /\ conn = [c \in Clients |-> Idle]
    /\ deleted = {}
    /\ users = Registered
    /\ sess = [c \in Clients |-> NoSess]
    /\ clock = 0
    /\ disk = NoDisk

NextRole ==
    \/ \E c \in Clients : LoginStart(c)
    \/ \E c \in Clients : LoginFind(c)
    \/ \E c \in Clients : LoginCompare(c)
    \/ UpdateUserRole
    \/ DeleteUser
    \/ Tick
    \/ \E c \in Clients : ReceivePutAs(c)
    \/ \E c \in Clients : Auth(c)
    \/ \E c \in Clients : Role(c, "admin")
    \/ \E c \in Clients : UploadPlain(c)
    \/ \E c \in Clients : ValidateProduct(c)
    \/ \E c \in Clients : UpdateFind(c)
    \/ \E c \in Clients : UpdateWrite(c)

SpecRole == InitRole /\ [][NextRole]_vars

\* ---------------------------------------------------------------- properties
Last(s) == s[Len(s)]
AdminRoutes == {"POST", "PUT"}

\* the request of client c carries a bearer token the server signed, unexpired
ValidToken(c) ==
    /\ conn[c].header.present
    /\ conn[c].header.tok.sig = "JWT_SECRET"
    /\ clock < conn[c].header.tok.exp
TokenRole(c) == conn[c].header.tok.role

\* client c took the step (its request moved)
Moved(c) == conn'[c] # conn[c]

\* C1: on POST /products and PUT /products/:id a request with a valid token
\* whose role is not "admin" is answered 403 by the role gate and no step of
\* it changes the store; with role "admin" it is never answered 403, the role
\* gate calls next() and the request goes on to the upload stage, and to the
\* handler unless the upload or the validator answers.
C1_RoleGate ==
    /\ [](\A c \in Clients :
            (conn[c].phase = "done" /\ conn[c].method \in AdminRoutes /\ ValidToken(c)) =>
               IF TokenRole(c) # "admin"
               THEN conn[c].status = 403 /\ conn[c].ran = <<"auth", "role">>
               ELSE /\ conn[c].status # 403
                    /\ Len(conn[c].ran) >= 3
                    /\ SubSeq(conn[c].ran, 1, 3) = <<"auth", "role", "upload">>
                    /\ Last(conn[c].ran) \in {"upload", "validateProduct", "create", "update"})
    /\ [][\A c \in Clients :
            (Moved(c) /\ conn[c].method \in AdminRoutes /\ ValidToken(c)
                      /\ TokenRole(c) # "admin") => store' = store]_vars

\* a user-role token was turned away on an admin route while a product is stored
C1_Witness ==
    \E c \in Clients :
        /\ conn[c].phase = "done" /\ conn[c].method = "PUT"
        /\ ValidToken(c) /\ TokenRole(c) = "user"
        /\ conn[c].status = 403
        /\ \E i \in Ids : store[i] # NoDoc

\* C2: a request through auth with no Authorization header, or with a header
\* whose value is empty once "Bearer " is removed, is answered 401 and nothing
\* after auth runs.
C2_MissingToken ==
    \A c \in Clients :
        (conn[c].phase = "done" /\ "auth" \in {Chain(conn[c].method)[k] :
                                                 k \in 1..Len(Chain(conn[c].method))}
           /\ (~conn[c].header.present \/ conn[c].header.tok = EmptyTok)) =>
              /\ conn[c].status = 401
              /\ conn[c].ran = <<"auth">>
              /\ conn[c].user = NoUser

\* a header that is only the "Bearer " prefix was answered 401
C2_Witness ==
    \E c \in Clients :
        /\ conn[c].phase = "done" /\ conn[c].header.present /\ conn[c].header.bearer
        /\ conn[c].header.tok = EmptyTok
        /\ conn[c].status = 401

\* C3: a bearer token that fails verification (forged or expired) is answered
\* 400 "Invalid token." by auth, req.user stays unset and nothing after auth
\* runs; a token that verifies makes auth set req.user to its payload and call
\* next() without answering.
C3_InvalidToken ==
    \A c \in Clients :
        LET r == conn[c]
            tok == r.header.tok
            good == tok.sig = "JWT_SECRET" /\ clock < tok.exp
        IN (r.method \in AdminRoutes /\ r.header.present /\ tok # EmptyTok
              /\ Len(r.ran) >= 1) =>
             IF good
             THEN /\ r.user = [userId |-> tok.userId, role |-> tok.role]
                  /\ r.ran[1] = "auth"
                  /\ Len(r.ran) = 1 => (r.phase = "run" /\ r.status = 0 /\ r.out = NoOut)
             ELSE /\ r.phase = "done" /\ r.status = 400
                  /\ r.out.msg = "Invalid token."
                  /\ r.user = NoUser
                  /\ r.ran = <<"auth">>

\* an expired token signed by the server was answered 400
C3_Witness ==
    \E c \in Clients :
        /\ conn[c].phase = "done" /\ clock >= conn[c].header.tok.exp
        /\ conn[c].header.tok.sig = "JWT_SECRET"
        /\ conn[c].status = 400 /\ conn[c].out.msg = "Invalid token."

\* C4: a DELETE /products/:id that does not carry a valid token with role
\* "admin" never removes a product: every DELETE answered 200 carried one.
C4_DeleteNeedsAdmin ==
    \A c \in Clients :
        (conn[c].phase = "done" /\ conn[c].method = "DELETE" /\ conn[c].status = 200) =>
            (ValidToken(c) /\ TokenRole(c) = "admin")

\* C5: on POST and PUT the stages run in the order auth, role, upload,
\* validateProduct, handler; the role gate is only evaluated once auth has
\* verified the token and set req.user; and the store is written only by a
\* request whose four gates have all run and called next().
C5_StageOrder ==
    /\ [](\A c \in Clients :
            conn[c].method \in AdminRoutes =>
              /\ \E h \in {"create", "update"} :
                    \E n \in 0..5 :
                       conn[c].ran =
                          SubSeq(<<"auth", "role", "upload", "validateProduct", h>>, 1, n)
              /\ (conn[c].phase = "run" /\ Current(c) = "role") =>
                    (conn[c].ran = <<"auth">> /\ conn[c].user # NoUser /\ ValidToken(c))
              /\ (Len(conn[c].ran) >= 2 /\ conn[c].ran[2] = "role") =>
                    (conn[c].user # NoUser /\ ValidToken(c)))
    /\ [][\A c \in Clients :
            (Moved(c) /\ store' # store /\ conn[c].method \in AdminRoutes) =>
               /\ conn[c].ran = <<"auth", "role", "upload", "validateProduct">>
               /\ conn[c].phase = "run"
               /\ ValidToken(c) /\ TokenRole(c) = "admin"]_vars

\* a POST went through the four gates and its handler stored a product
C5_Witness ==
    \E c \in Clients :
        /\ conn[c].method = "POST" /\ conn[c].status = 201
        /\ conn[c].ran = <<"auth", "role", "upload", "validateProduct", "create">>
        /\ conn[c].out.doc.id \in Ids /\ store[conn[c].out.doc.id] = conn[c].out.doc

\* field f of body b breaks the rules of validateProduct's schema
Offending(b, f) ==
    CASE f \in {"name", "description", "category"} -> b[f].k # "str" \/ b[f].s = ""
      [] f \in {"price", "stock"} ->
            b[f].k = "absent" \/ (b[f].k = "str" /\ b[f].s \notin {"0", "3", "5", "9"})
      [] f = "imageUrl" -> b[f].k # "absent" /\ (b[f].k # "str" \/ b[f].s # "http://img")
      [] OTHER -> FALSE

FieldSet == {"name", "description", "price", "category", "stock", "imageUrl"}

\* C6: when the body of a POST or PUT breaks the schema, validateProduct
\* answers 400 with a message naming a field in violation, the handler does
\* not run and the store is neither read nor written by the request.
C6_ValidationRejects ==
    /\ [][\A c \in Clients :
            (Moved(c) /\ Current(c) = "validateProduct"
                      /\ \E f \in FieldSet : Offending(conn[c].body, f)) =>
               /\ conn'[c].phase = "done" /\ conn'[c].status = 400
               /\ conn'[c].out.kind = "error"
               /\ conn'[c].out.field \in FieldSet
               /\ Offending(conn[c].body, conn'[c].out.field)
               /\ conn'[c].out.msg # ""
               /\ conn'[c].ran = <<"auth", "role", "upload", "validateProduct">>
               /\ store' = store /\ nextId' = nextId]_vars
    /\ [](\A c \in Clients :
            (conn[c].phase = "done" /\ conn[c].out.field # "") =>
               (conn[c].status = 400 /\ Last(conn[c].ran) = "validateProduct"))

\* a PUT whose body lacks stock was answered 400 naming stock
C6_Witness ==
    \E c \in Clients :
        /\ conn[c].phase = "done" /\ conn[c].method = "PUT" /\ conn[c].status = 400
        /\ conn[c].out.field = "stock" /\ conn[c].out.msg = "is required"
        /\ conn[c].id \in Ids /\ store[conn[c].id] # NoDoc

RequiredFields == {"name", "description", "price", "category", "stock"}

\* body b supplies some of the product fields, each with a value the schema
\* accepts for that field, and leaves at least one of them out
PartialBody(b) ==
    /\ \E f \in FieldSet : b[f].k # "absent"
    /\ \E f \in RequiredFields : b[f].k = "absent"
    /\ \A f \in FieldSet : b[f].k # "absent" => ~Offending(b, f)

\* the number a numeral of the model denotes
Num(s) == CASE s = "0" -> 0 [] s = "3" -> 3 [] s = "5" -> 5 [] s = "9" -> 9 [] OTHER -> NaN

\* d with the fields b supplies overwritten, the others kept
Merged(d, b, file) ==
    [id |-> d.id,
     name |-> IF b.name.k = "absent" THEN d.name ELSE b.name.s,
     description |-> IF b.description.k = "absent" THEN d.description ELSE b.description.s,
     price |-> IF b.price.k = "absent" THEN d.price ELSE Num(b.price.s),
     category |-> IF b.category.k = "absent" THEN d.category ELSE b.category.s,
     stock |-> IF b.stock.k = "absent" THEN d.stock ELSE Num(b.stock.s),
     imageUrl |-> IF file # NoFile THEN StoragePath(file)
                  ELSE IF b.imageUrl.k = "absent" THEN d.imageUrl ELSE b.imageUrl.s]

\* C7: an admin PUT on an existing product whose body supplies only a subset
\* of the fields is accepted (no stage answers it with an error), and the
\* stored record then has the supplied fields changed and the omitted ones
\* as before.
C7_PartialPutMerges ==
    [][\A c \in Clients :
         (Moved(c) /\ conn[c].method = "PUT" /\ conn[c].id \in Ids
            /\ store[conn[c].id] # NoDoc /\ PartialBody(conn[c].body)) =>
            /\ conn'[c].status \in {0, 200}
            /\ conn'[c].status = 200 =>
                  /\ store'[conn[c].id] =
                        Merged(store[conn[c].id], conn[c].body, conn[c].file)
                  /\ conn'[c].out = ProductOut(store'[conn[c].id])]_vars

\* C8: an admin POST answered 201 stores, under a fresh identifier, a record
\* whose name, description, price, category and stock are the payload's and
\* whose imageUrl is the uploaded file's storage path, and returns it; and
\* GET /products/:id of a stored product answers 200 with the stored record.
C8_PostThenGet ==
    /\ [][\A c \in Clients :
            (Moved(c) /\ Current(c) = "create" /\ conn'[c].status = 201) =>
               LET b == conn[c].body
                   d == conn'[c].out.doc
               IN /\ conn'[c].out.kind = "product"
                  /\ d.id \in Ids /\ store[d.id] = NoDoc /\ d.id \notin deleted
                  /\ \A j \in Ids : store[j] # NoDoc => j # d.id
                  /\ store'[d.id] = d
                  /\ \A j \in Ids \ {d.id} : store'[j] = store[j]
                  /\ d.name = b.name.s /\ d.description = b.description.s
                  /\ d.price = Num(b.price.s) /\ d.price # NaN
                  /\ d.category = b.category.s
                  /\ d.stock = Num(b.stock.s) /\ d.stock # NaN
                  /\ conn[c].file # NoFile
                  /\ d.imageUrl = StoragePath(conn[c].file) /\ d.imageUrl # ""]_vars
    /\ [][\A c \in Clients :
            (Moved(c) /\ Current(c) = "getById" /\ conn[c].id \in Ids
                      /\ store[conn[c].id] # NoDoc) =>
               /\ conn'[c].status = 200
               /\ conn'[c].out = ProductOut(store[conn[c].id])
               /\ conn'[c].out.doc.id = conn[c].id]_vars

\* a GET returned a product created from name "B" and the file b.png
C8_Witness ==
    \E c \in Clients :
        /\ conn[c].phase = "done" /\ conn[c].method = "GET" /\ conn[c].status = 200
        /\ conn[c].out.doc =
              [id |-> conn[c].id, name |-> "B", description |-> "d", price |-> 5,
               category |-> "mugs", stock |-> 3, imageUrl |-> "uploads/3600-b.png"]

\* C9 as stated: once a DELETE of an id was answered 200, every later GET,
\* PUT and DELETE of that id is answered 404.
C9_DeletedAlways404 ==
    [][\A c \in Clients :
         (Moved(c) /\ conn'[c].phase = "done" /\ conn[c].id \in deleted) =>
            conn'[c].status = 404]_vars

\* C9 amended: once a DELETE of an id was answered 200, the id is never
\* stored again, every later GET and DELETE of it is answered 404, and so is
\* every later PUT of it that reaches the handler; a PUT stopped by a gate is
\* answered by that gate (401, 400, 403 or 500), never 200.
C9_DeletedStaysGone ==
    /\ [](\A i \in deleted : store[i] = NoDoc)
    /\ [][\A c \in Clients :
            (Moved(c) /\ conn'[c].phase = "done" /\ conn[c].id \in deleted) =>
               IF Current(c) \in {"getById", "delete", "update"}
               THEN conn'[c].status = 404
               ELSE conn'[c].status \in {400, 401, 403, 500}]_vars

\* a second DELETE of a deleted id was answered 404
C9_Witness ==
    \E c \in Clients :
        /\ conn[c].phase = "done" /\ conn[c].method = "DELETE"
        /\ conn[c].id \in deleted /\ conn[c].status = 404

\* C10: a DELETE answered 200 returns the record as it was stored before the
\* step, removes that record, and leaves every other product as it was.
C10_DeleteFrame ==
    [][\A c \in Clients :
         (Moved(c) /\ Current(c) = "delete" /\ conn'[c].status = 200) =>
            LET i == conn[c].id
            IN /\ i \in Ids /\ store[i] # NoDoc
               /\ conn'[c].out.kind = "deleted"
               /\ conn'[c].out.doc = store[i]
               /\ store'[i] = NoDoc
               /\ \A j \in Ids \ {i} : store'[j] = store[j]]_vars

\* a product was deleted and returned while another one stays stored
C10_Witness ==
    \E c \in Clients :
        /\ conn[c].phase = "done" /\ conn[c].method = "DELETE" /\ conn[c].status = 200
        /\ conn[c].out.doc.id = conn[c].id /\ conn[c].out.doc.name = "A"
        /\ store[conn[c].id] = NoDoc
        /\ \E j \in Ids : store[j] # NoDoc

C12_PostNeedsFile ==
    [][\A c \in Clients :
         (Moved(c) /\ conn[c].method = "POST" /\ conn[c].file = NoFile
            /\ Current(c) \in {"validateProduct", "create"}) =>
            /\ store' = store /\ nextId' = nextId
            /\ conn'[c].phase = "done" => conn'[c].status = 400
            /\ Current(c) = "create" =>
                  (conn'[c].phase = "done" /\ conn'[c].out.msg = "File upload failed")]_vars

\* a POST with a valid body and no file was answered 400 by the handler
C12_Witness ==
    \E c \in Clients :
        /\ conn[c].phase = "done" /\ conn[c].method = "POST" /\ conn[c].status = 400
        /\ Last(conn[c].ran) = "create" /\ conn[c].out.msg = "File upload failed"

\* C13: an admin PUT that carries no file is not refused for that and
\* leaves imageUrl as it was stored before; one that carries a file sets
\* imageUrl to the file's storage path.
C13_PutImage ==
    [][\A c \in Clients :
         (Moved(c) /\ Current(c) = "update" /\ conn[c].id \in Ids
            /\ store[conn[c].id] # NoDoc) =>
            /\ conn'[c].status \in {0, 200}
            /\ conn'[c].status = 200 =>
                  store'[conn[c].id].imageUrl =
                     IF conn[c].file = NoFile THEN store[conn[c].id].imageUrl
                     ELSE StoragePath(conn[c].file)]_vars

\* a PUT was answered 200 with the record it stored, whose imageUrl is an
\* uploaded file's storage path
C13_Witness ==
    \E c \in Clients :
        /\ conn[c].phase = "done" /\ conn[c].method = "PUT" /\ conn[c].status = 200
        /\ conn[c].out.doc.imageUrl = "uploads/3600-a.png"
        /\ conn[c].out.doc.name = "B"
        /\ store[conn[c].id] = conn[c].out.doc

\* the products a listing request's filter selects, and the place of one of
\* them in the order the request asks for
Selected(q) ==
    {store[i] : i \in {j \in DOMAIN store :
        store[j] # NoDoc /\ (q.category = Absent \/ store[j].category = q.category.s)}}
Precedes(e, d, q) ==
    IF q.sortBy = Absent THEN e.id < d.id
    ELSE IF q.sortOrder = Absent
    THEN e.price < d.price \/ (e.price = d.price /\ e.id < d.id)
    ELSE e.price > d.price \/ (e.price = d.price /\ e.id < d.id)
Rank(d, q) == Cardinality({e \in Selected(q) : Precedes(e, d, q)})
PageNumber(q) == IF q.page = Absent THEN 1 ELSE QueryNumber(q.page)
PageSize(q) == IF q.limit = Absent THEN 10 ELSE QueryNumber(q.limit)

C15_CategoryFilter ==
    \A c \in Clients :
        LET r == conn[c]
            q == r.query
        IN (r.phase = "done" /\ r.method = "LIST" /\ r.status = 200) =>
             /\ r.out.kind = "list"
             /\ q.category # Absent =>
                   \A k \in 1..Len(r.out.products) :
                       r.out.products[k].category = q.category.s
             /\ r.out.total =
                   Cardinality({i \in DOMAIN store :
                       /\ store[i] # NoDoc
                       /\ q.category = Absent \/ store[i].category = q.category.s})

\* a listing of category mugs with limit 1 reported a total of 2 while a
\* product of another category is stored
C15_Witness ==
    \E c \in Clients :
        /\ conn[c].phase = "done" /\ conn[c].method = "LIST" /\ conn[c].status = 200
        /\ conn[c].query.category = S("mugs") /\ conn[c].query.limit = S("1")
        /\ conn[c].out.total = 2 /\ Len(conn[c].out.products) = 1
        /\ \E i \in ListIds : store[i] # NoDoc /\ store[i].category = "beans"

\* C16: whatever registrations have run, concurrent ones included, no two
\* stored users have the same email; a registration whose email is already
\* stored is answered 400 and adds no user.
C16_UniqueEmail ==
    [][/\ \A j, k \in 1..Len(users') : j # k => users'[j].email # users'[k].email
       /\ \A c \in AuthClients :
            (sess'[c] # sess[c] /\ sess[c].op = "register" /\ sess[c].step = 2
               /\ \E k \in 1..Len(users) : users[k].email = sess[c].email) =>
               /\ sess'[c].phase = "done" /\ sess'[c].status = 400
               /\ users' = users]_vars

\* two registrations were answered, one 201 and one 400 for the duplicate,
\* and one user is stored
C16_Witness ==
    \E c, d \in AuthClients :
        /\ sess[c].phase = "done" /\ sess[c].op = "register" /\ sess[c].status = 201
        /\ sess[d].phase = "done" /\ sess[d].op = "register" /\ sess[d].status = 400
        /\ sess[d].msg = "E11000 duplicate key error"
        /\ Len(users) = 1

C18_PasswordHashed ==
    /\ \A k \in 1..Len(users) :
          /\ users[k].password.kind = "hash"
          /\ users[k].password.rounds = 1
          /\ users[k].password # Plain(users[k].password.text)
    /\ \A c \in AuthClients :
          (sess[c].phase = "run" /\ sess[c].op = "register" /\ sess[c].step = 2) =>
             /\ sess[c].doc.password.kind = "hash"
             /\ sess[c].doc.password.rounds = 1
             /\ sess[c].doc.password.text = sess[c].password

\* a stored user was saved again under another name and logs in with the
\* password it registered with
C18_Witness ==
    \E c \in AuthClients :
        /\ sess[c].phase = "done" /\ sess[c].op = "login" /\ sess[c].status = 200
        /\ \E k \in 1..Len(users) :
              /\ users[k].name = "m" /\ users[k].id = sess[c].token.userId
              /\ users[k].password.rounds = 1

\* C19: the token a successful login issues carries the user's id and
\* role; the authentication gate accepts it at every time less than one hour
\* after it was issued and answers 400 at every later time.
C19_TokenLifetime ==
    [][\A c \in Clients :
         /\ (sess'[c] # sess[c] /\ sess[c].op = "login" /\ sess'[c].status = 200) =>
               \E k \in 1..Len(users) :
                   /\ users[k].email = sess[c].email
                   /\ sess'[c].token.userId = users[k].id
                   /\ sess'[c].token.role = users[k].role
                   /\ sess'[c].token.iat = clock
                   /\ sess'[c].token.sig = "JWT_SECRET"
         /\ (Moved(c) /\ Current(c) = "auth") =>
               LET tok == conn[c].header.tok
               IN IF clock - tok.iat < ExpiresIn
                  THEN /\ conn'[c].phase = "run"
                       /\ conn'[c].user = [userId |-> tok.userId, role |-> tok.role]
                  ELSE /\ conn'[c].phase = "done" /\ conn'[c].status = 400
                       /\ conn'[c].out.msg = "Invalid token."]_vars

\* a token issued half an hour after the start was refused by the gate
\* exactly one hour after it was issued
C19_Witness ==
    \E c \in Clients :
        /\ conn[c].phase = "done" /\ conn[c].method = "USERS" /\ conn[c].status = 400
        /\ conn[c].header.tok.iat = TickStep
        /\ conn[c].header.tok.userId = 2 /\ conn[c].header.tok.role = "user"
        /\ clock = conn[c].header.tok.iat + ExpiresIn

\* the number a supplied price or stock stands for
Supplied(v) == IF v.k = "num" THEN v.n ELSE Num(v.s)

\* C20: after an admin PUT answered 200, every field the request supplied
\* holds exactly the supplied value in the stored record, for every value
\* the validator accepts, a price or stock of 0 included.
C20_SuppliedValuesStored ==
    [][\A c \in Clients :
         (Moved(c) /\ Current(c) = "update" /\ conn'[c].status = 200) =>
            LET b == conn[c].body
                d == store'[conn[c].id]
            IN /\ b.name # Absent => d.name = b.name.s
               /\ b.description # Absent => d.description = b.description.s
               /\ b.category # Absent => d.category = b.category.s
               /\ b.price # Absent => d.price = Supplied(b.price)
               /\ b.stock # Absent => d.stock = Supplied(b.stock)]_vars

\* C21: GET /products/:id answers 404 for every id under which no product
\* is stored, whatever the form of the id, an id that is no well-formed
\* identifier included; it answers neither 200 nor 500 then.
C21_GetMissingIs404 ==
    [][\A c \in Clients :
         (Moved(c) /\ Current(c) = "getById" /\ FindById(conn[c].id) = NoDoc) =>
            /\ conn'[c].phase = "done"
            /\ conn'[c].status = 404]_vars

\* C22: for GET /products a limit of 0 is coerced to a positive minimum:
\* whatever the limit, the response holds at most a positive page size of
\* products (the limit when it is positive, the minimum of 1 when it is 0),
\* never the whole matching set because the limit was 0.
C22_LimitZeroCoerced ==
    \A c \in Clients :
        LET r == conn[c]
            L == PageSize(r.query)
        IN (r.phase = "done" /\ r.method = "LIST" /\ r.status = 200) =>
             Len(r.out.products) <= (IF L < 1 THEN 1 ELSE L)

\* C23: GET /products with a page below 1 is normalized to page 1: it is
\* answered 200 with the total and the products of the same request with
\* page = 1.
C23_PageBelowOneIsPageOne ==
    \A c \in Clients :
        LET r == conn[c]
            q == r.query
            one == [q EXCEPT !.page = S("1")]
        IN (r.phase = "done" /\ r.method = "LIST" /\ PageNumber(q) < 1) =>
             /\ r.status = 200
             /\ r.out.total = CountDocuments(one)
             /\ r.out.products = FindProducts(one, SkipOf(one))

\* C24: an admin POST /products whose image the upload stage refuses (larger
\* than 1 MiB, or of a type outside jpeg, jpg, png, gif, webp) is answered
\* 400 and creates no product.
C24_UploadRejectedIs400 ==
    [][\A c \in Clients :
         (Moved(c) /\ conn[c].method = "POST" /\ Current(c) = "upload"
            /\ conn'[c].phase = "done") =>
            /\ conn'[c].status = 400
            /\ store' = store /\ nextId' = nextId]_vars

\* C25: no two upload requests write the same storage path; two uploads, also
\* concurrent ones that carry the same original file name, get different
\* generated file names, so no path of the upload directory is written twice.
C25_DistinctStoragePaths ==
    \A p \in AllPaths : disk.files[p] <= 1

\* C30: once no product request is in flight, every file written to the upload
\* directory is the imageUrl of some stored product.
C30_NoUnreferencedFile ==
    (\A c \in DOMAIN conn : conn[c].phase \in {"idle", "done"}) =>
        \A p \in AllPaths :
            disk.files[p] > 0 =>
                \E i \in Ids : store[i] # NoDoc /\ store[i].imageUrl = p

\* C26: the role gate decides from the role carried in the presented token
\* alone: a request whose verified token carries the role admin passes the
\* gate and every other one is answered 403, whatever the user store holds
\* for the token's user at that moment (another role, or no such user).
C26_RoleFromTokenOnly ==
    [][\A c \in DOMAIN conn :
          (Moved(c) /\ Current(c) = "role") =>
              IF TokenRole(c) = "admin"
              THEN conn'[c].phase = "run" /\ conn'[c].idx = conn[c].idx + 1
              ELSE conn'[c].phase = "done" /\ conn'[c].status = 403]_vars

\* a request with an admin's token is past the role gate while the user store
\* holds no admin with the token's user id
C26_Witness ==
    \E c \in DOMAIN conn :
        /\ conn[c].phase = "run" /\ conn[c].method = "PUT"
        /\ Current(c) = "upload"
        /\ TokenRole(c) = "admin"
        /\ ~\E k \in 1..Len(users) : /\ users[k].id = conn[c].header.tok.userId
                                       /\ users[k].role = "admin"

\* C29: in every GET /products response the number of products returned is
\* at most total, also when other requests create or delete products between
\* the handler's find and its countDocuments.
C29_ProductsAtMostTotal ==
    \A c \in DOMAIN conn :
        (conn[c].phase = "done" /\ conn[c].method = "LIST" /\ conn[c].status = 200) =>
            Len(conn[c].out.products) <= conn[c].out.total

\* C27: an admin PUT /products/:id that has read the product and then writes,
\* while a DELETE of the same product may have run in between, is answered
\* either 404 with the store untouched or 200 with the updated record that
\* is now stored: never 200 with a null body, and the product is not created
\* again.
C27_PutVersusDelete ==
    [][\A c \in DOMAIN conn :
          (Moved(c) /\ Current(c) = "update" /\ conn[c].existing # NoDoc) =>
              \/ conn'[c].status = 404 /\ store' = store
              \/ /\ conn'[c].status = 200
                 /\ conn'[c].out.doc # NoDoc
                 /\ store'[conn[c].id] = conn'[c].out.doc]_vars

\* C28: the write of a PUT without a file leaves the imageUrl that is stored
\* at the moment of the write, so that the path another PUT has stored since
\* this one read the product is not replaced by the one read before.
C28_NoStaleImageUrl ==
    [][\A c \in DOMAIN conn :
          (Moved(c) /\ Current(c) = "update" /\ conn[c].existing # NoDoc
             /\ conn[c].file = NoFile /\ FindById(conn[c].id) # NoDoc) =>
              store'[conn[c].id].imageUrl = store[conn[c].id].imageUrl]_vars

====
